---------------------------- MODULE Spec2Model ----------------------------
(***************************************************************************)
(* DhanVyapar-AI, the frontend's stateful components.                      *)
(*                                                                         *)
(* Four React components, each a state machine of its own with its own     *)
(* specification; a specification keeps the other components unrendered.   *)
(*                                                                         *)
(*   Spec, FairSpec  the LoanRecommendations page                          *)
(*                   (frontend/src/pages/LoanRecommendations.tsx, 1-426):  *)
(*                   its React state, the loan application it receives     *)
(*                   through the navigation state, the effect that starts  *)
(*                   fetchRecommendations, the fetches waiting in their    *)
(*                   1500 ms delay                                         *)
(*   SpecLender      the LenderDashboard page (same file, 428-805): the    *)
(*                   loans, the status filter and its effect, the status   *)
(*                   updates waiting for the loan service                  *)
(*   SpecChat,       the ChatBot widget (unnamed/part_002, 11-227) under   *)
(*   FairSpecChat    Layout or a dashboard: the transcript, the input and  *)
(*                   the requests to the AI                                *)
(*   SpecVoice       the VoiceAssistant (components/common/                *)
(*                   VoiceAssistant.tsx): recognition, the requests to     *)
(*                   the AI and speech synthesis                           *)
(*                                                                         *)
(* Number conventions.  JavaScript numbers with one decimal are kept as    *)
(* integers in tenths: interestRate 8.5 is 85, rating 4.2 is 42,          *)
(* processingFee 1.5 is 15.  Rupee amounts, scores, months and ages are    *)
(* the integers of the source.                                             *)
(***************************************************************************)
EXTENDS Integers, Sequences, FiniteSets

VARIABLES
    \* the LoanRecommendations page
    loanApplication,    \* location.state?.loanApplication (NoApplication when absent)
    effectPending,      \* the effect of lines 34-174 has yet to run for loanApplication
    route,              \* where the router is
    inflight,           \* fetchRecommendations calls waiting in the delay, oldest first;
                        \* each entry is the loanApplication its closure captured
    recommendations,    \* useState<LoanRecommendation[]>([])
    loading,            \* useState(true)
    selectedFilter,     \* useState('all')
    servedApplication,  \* the application captured by the fetch that last set recommendations
    navigations,        \* how many times the navigation state has been replaced
    fetchLog,           \* the completed fetchRecommendations calls, oldest first: the
                        \* application each captured and the list it handed over
    appliedLenderId,    \* the lenderId of the last handleApplyToLender call, NoLender before
    \* the LenderDashboard page
    lenderMounted,      \* the router renders the dashboard
    loans,              \* useState<LoanApplication[]>([])
    filteredLoans,      \* useState<LoanApplication[]>([])
    stats,              \* useState<DashboardStats | null>(null)
    lenderLoading,      \* the dashboard's useState(true), its `loading`
    statusFilter,       \* useState<string>('all')
    dashboardFetch,     \* fetchData of lines 452-467: "scheduled", "pending" or "done"
    filterEffectPending,\* the effect of lines 473-479 has yet to run for (statusFilter, loans)
    statusRequests,     \* loanService.updateLoanStatus calls not yet settled
    lenderToasts,       \* the toasts the dashboard has raised, oldest first
    \* the ChatBot widget
    chatParent,         \* the component that renders the widget, NoParent when none does
    chatMounted,        \* the parent renders the widget (Layout always, a dashboard
                        \* while activeChatbot is set)
    chatOpen,           \* the widget's open prop: isChatOpen, !!activeChatbot
    chatInstance,       \* how many widgets the parent has mounted so far
    aiType,             \* the widget's aiType prop, "undefined" when not passed
    messages,           \* useState<ChatMessage[]>([{ from: 'bot', text: getInitialMessage() }])
    input,              \* useState(''), a sequence of characters
    isLoading,          \* useState(false)
    chatRequests,       \* geminiChatService.sendMessage calls not yet settled: the
                        \* widget that sent each and the message it sent
    \* the VoiceAssistant
    voiceMounted,       \* the parent renders the assistant (showVoiceAssistant)
    voiceInstance,      \* how many assistants the parent has mounted so far
    isListening,        \* useState(false)
    isSpeaking,         \* useState(false)
    transcript,         \* useState('')
    response,           \* useState('')
    isProcessing,       \* useState(false)
    recognition,        \* the SpeechRecognition session of each assistant mounted so
                        \* far: "idle", "starting", "active", "stopping" (stop() was
                        \* called) or "ending" (a final result or an error was
                        \* delivered, onend is to come)
    utterance,          \* what window.speechSynthesis holds: NoUtterance, or the text,
                        \* whether it has started to sound, and the assistant whose
                        \* speakResponse made it
    cancelled,          \* the cancelled utterances of the mounted assistant whose onend
                        \* or onerror is still to be delivered
    voiceRequests       \* geminiChatService.sendMessage calls not yet settled: the
                        \* assistant that sent each and the message it sent

pageVars == << loanApplication, effectPending, route, inflight, recommendations,
               loading, selectedFilter, servedApplication, navigations, fetchLog,
               appliedLenderId >>

lenderVars == << lenderMounted, loans, filteredLoans, stats, lenderLoading, statusFilter,
                 dashboardFetch, filterEffectPending, statusRequests, lenderToasts >>

chatVars == << chatParent, chatMounted, chatOpen, chatInstance, aiType, messages, input,
              isLoading, chatRequests >>

voiceVars == << voiceMounted, voiceInstance, isListening, isSpeaking, transcript,
                response, isProcessing, recognition, utterance, cancelled,
                voiceRequests >>

vars == << pageVars, lenderVars, chatVars, voiceVars >>

---------------------------------------------------------------------------
(* Bounds and input sets *)

\* how many times the page is re-entered with a new navigation state
MaxNavigations == 1

CreditScores == {600, 720}
MonthlyIncomes == {18000, 30000}
EmploymentTypes == {"salaried", "business"}
Amounts == {100000, 200000, 500000, 2000000}
Terms == {12, 24, 36, 72}
\* the borrower's age is no field of LoanApplication; the claims quantify over it
Ages == {35, 68}

\* LoanApplication (types, lines 11-25): the fields a recommendation could depend on
Applications ==
    [ amount : Amounts, term : Terms, creditScore : CreditScores,
      monthlyIncome : MonthlyIncomes, employmentType : EmploymentTypes ]

\* applications the form's type admits but the specification calls invalid:
\* a requested amount of zero
InvalidApplications ==
    { [ amount |-> 0, term |-> 12, creditScore |-> 720,
        monthlyIncome |-> 30000, employmentType |-> "salaried" ] }

\* location.state is undefined: no loan application was passed
NoApplication == [ absent |-> TRUE ]

\* the applications of the spec's Example 1 and Example 2
Example1 == [ amount |-> 500000, term |-> 36, creditScore |-> 720,
              monthlyIncome |-> 30000, employmentType |-> "salaried" ]
Example2 == [ amount |-> 200000, term |-> 24, creditScore |-> 600,
              monthlyIncome |-> 18000, employmentType |-> "business" ]

\* the navigation states a later navigation to the page may carry
LaterApplications == { Example1, Example2, NoApplication }

RecommendationsPage == "/loan-recommendations"
BorrowerDashboardPage == "/borrowers/dashboard"

Filters == { "all", "eligible", "top_rated" }

---------------------------------------------------------------------------
(* The mock data of fetchRecommendations, lines 49-162 *)

\* mockRecommendations[0], lines 50-77
sbiRecommendation ==
    [ lender |-> [ id |-> "1", name |-> "State Bank of India", type |-> "bank",
                   interestRate |-> 85, minAmount |-> 50000, maxAmount |-> 1000000,
                   maxTerm |-> 60, processingFee |-> 15,
                   eligibilityCriteria |->
                       [ minCreditScore |-> 650, minMonthlyIncome |-> 25000,
                         maxAge |-> 65,
                         employmentTypes |-> << "salaried", "self-employed" >> ],
                   features |-> << "Flexible EMI", "Quick Approval",
                                   "No Prepayment Charges" >>,
                   rating |-> 42, reviewCount |-> 1250,
                   processingTime |-> "3-5 days" ],
      matchScore |-> 92,
      eligibilityStatus |-> "eligible",
      reasons |-> << "Credit score matches requirement", "Income sufficient",
                     "Loan amount within limit" >>,
      estimatedEMI |-> 12458,
      totalInterest |-> 148960 ]

\* mockRecommendations[1], lines 78-105
hdfcRecommendation ==
    [ lender |-> [ id |-> "2", name |-> "HDFC Bank", type |-> "bank",
                   interestRate |-> 92, minAmount |-> 100000, maxAmount |-> 2000000,
                   maxTerm |-> 72, processingFee |-> 20,
                   eligibilityCriteria |->
                       [ minCreditScore |-> 700, minMonthlyIncome |-> 30000,
                         maxAge |-> 60,
                         employmentTypes |-> << "salaried" >> ],
                   features |-> << "Digital Process", "Instant Approval",
                                   "Doorstep Service" >>,
                   rating |-> 45, reviewCount |-> 2100,
                   processingTime |-> "1-2 days" ],
      matchScore |-> 85,
      eligibilityStatus |-> "eligible",
      reasons |-> << "High credit score advantage", "Premium banking customer",
                     "Quick processing" >>,
      estimatedEMI |-> 13250,
      totalInterest |-> 165000 ]

\* mockRecommendations[2], lines 106-133
bajajRecommendation ==
    [ lender |-> [ id |-> "3", name |-> "Bajaj Finserv", type |-> "nbfc",
                   interestRate |-> 115, minAmount |-> 25000, maxAmount |-> 500000,
                   maxTerm |-> 48, processingFee |-> 25,
                   eligibilityCriteria |->
                       [ minCreditScore |-> 600, minMonthlyIncome |-> 20000,
                         maxAge |-> 70,
                         employmentTypes |-> << "salaried", "self-employed",
                                                "business" >> ],
                   features |-> << "Instant Approval", "Minimal Documentation",
                                   "Flexible Tenure" >>,
                   rating |-> 40, reviewCount |-> 890,
                   processingTime |-> "2-4 hours" ],
      matchScore |-> 78,
      eligibilityStatus |-> "eligible",
      reasons |-> << "Fast processing", "Low documentation", "Flexible criteria" >>,
      estimatedEMI |-> 15123,
      totalInterest |-> 225840 ]

\* mockRecommendations[3], lines 134-161
mahindraRecommendation ==
    [ lender |-> [ id |-> "4", name |-> "Mahindra Finance", type |-> "nbfc",
                   interestRate |-> 128, minAmount |-> 20000, maxAmount |-> 300000,
                   maxTerm |-> 36, processingFee |-> 30,
                   eligibilityCriteria |->
                       [ minCreditScore |-> 550, minMonthlyIncome |-> 15000,
                         maxAge |-> 65,
                         employmentTypes |-> << "salaried", "self-employed",
                                                "agriculture" >> ],
                   features |-> << "Rural Focus", "Agriculture Loans",
                                   "Easy Approval" >>,
                   rating |-> 38, reviewCount |-> 450,
                   processingTime |-> "1-3 days" ],
      matchScore |-> 65,
      eligibilityStatus |-> "partially_eligible",
      reasons |-> << "Higher interest rate", "Suitable for rural areas",
                     "Lower amount limit" >>,
      estimatedEMI |-> 16890,
      totalInterest |-> 208040 ]

\* mutants of the literal: the first two records exchanged; a score outside
\* 0..100; a record without reasons
mockRecommendations_exchanged ==
    << hdfcRecommendation, sbiRecommendation, bajajRecommendation,
       mahindraRecommendation >>

mockRecommendations_overscored ==
    << [ sbiRecommendation EXCEPT !.matchScore = 105 ], hdfcRecommendation,
       bajajRecommendation, mahindraRecommendation >>

mockRecommendations_unreasoned ==
    << sbiRecommendation, hdfcRecommendation, bajajRecommendation,
       [ mahindraRecommendation EXCEPT !.reasons = << >> ] >>

\* the array literal, lines 49-162
mockRecommendations ==
    << sbiRecommendation, hdfcRecommendation, bajajRecommendation,
       mahindraRecommendation >>

\* mutants of the fetch: offers whose amount range does not hold the request are
\* skipped; the list depends on how often the page was re-entered; the verdict
\* depends on the application's credit score
fetchedRecommendations_partial(application) ==
    LET Offered(rec) == /\ rec.lender.minAmount <= application.amount
                        /\ application.amount <= rec.lender.maxAmount
    IN  SelectSeq(mockRecommendations, Offered)

fetchedRecommendations_stateful(application) ==
    IF navigations >= 1 THEN mockRecommendations_exchanged ELSE mockRecommendations

fetchedRecommendations_perRequest(application) ==
    [ k \in DOMAIN mockRecommendations |->
        IF application.creditScore
              < mockRecommendations[k].lender.eligibilityCriteria.minCreditScore
        THEN [ mockRecommendations[k] EXCEPT !.eligibilityStatus = "partially_eligible" ]
        ELSE mockRecommendations[k] ]

\* what fetchRecommendations hands to setRecommendations (line 164) for the
\* application its closure captured: the literal, whatever the application is
fetchedRecommendations(application) == mockRecommendations

---------------------------------------------------------------------------
(* Rendering, lines 202-211 and 218-227 *)

Mounted == route = RecommendationsPage

\* mutant of the filter: 'top_rated' drops a rating of exactly 4.0
filteredRecommendations_strict ==
    LET Keep(rec) ==
            CASE selectedFilter = "eligible" -> rec.eligibilityStatus = "eligible"
              [] selectedFilter = "top_rated" -> rec.lender.rating > 40
              [] OTHER -> TRUE
    IN  SelectSeq(recommendations, Keep)

filteredRecommendations ==
    LET Keep(rec) ==
            CASE selectedFilter = "eligible" -> rec.eligibilityStatus = "eligible"
              [] selectedFilter = "top_rated" -> rec.lender.rating >= 40
              [] OTHER -> TRUE
    IN  SelectSeq(recommendations, Keep)

---------------------------------------------------------------------------
(* A component that is not rendered: its state is the one its useState calls
   would create, nothing of it is scheduled or waiting *)

\* handleApplyToLender has not been called
NoLender == "none"

\* window.speechSynthesis holds no utterance
NoUtterance == [ text |-> "", started |-> FALSE, owner |-> 0 ]

PageUnrendered ==
    /\ loanApplication = NoApplication
    /\ effectPending = FALSE
    /\ route = BorrowerDashboardPage
    /\ inflight = << >>
    /\ recommendations = << >>
    /\ loading = TRUE
    /\ selectedFilter = "all"
    /\ servedApplication = NoApplication
    /\ navigations = 0
    /\ fetchLog = << >>
    /\ appliedLenderId = NoLender

LenderUnrendered ==
    /\ lenderMounted = FALSE
    /\ loans = << >>
    /\ filteredLoans = << >>
    /\ stats = "null"
    /\ lenderLoading = TRUE
    /\ statusFilter = "all"
    /\ dashboardFetch = "done"
    /\ filterEffectPending = FALSE
    /\ statusRequests = << >>
    /\ lenderToasts = << >>

NoParent == "none"

ChatUnrendered ==
    /\ chatParent = NoParent
    /\ chatMounted = FALSE
    /\ chatOpen = FALSE
    /\ chatInstance = 0
    /\ aiType = "undefined"
    /\ messages = << >>
    /\ input = << >>
    /\ isLoading = FALSE
    /\ chatRequests = << >>

VoiceUnrendered ==
    /\ voiceMounted = FALSE
    /\ voiceInstance = 0
    /\ isListening = FALSE
    /\ isSpeaking = FALSE
    /\ transcript = ""
    /\ response = ""
    /\ isProcessing = FALSE
    /\ recognition = << >>
    /\ utterance = NoUtterance
    /\ cancelled = 0
    /\ voiceRequests = << >>

---------------------------------------------------------------------------
(* The LoanRecommendations page: the state after the first render *)

Init ==
    /\ loanApplication \in Applications \cup InvalidApplications \cup { NoApplication }
    /\ effectPending = TRUE
    /\ route = RecommendationsPage
    /\ inflight = << >>
    /\ recommendations = << >>
    /\ loading = TRUE
    /\ selectedFilter = "all"
    /\ servedApplication = NoApplication
    /\ navigations = 0
    /\ fetchLog = << >>
    /\ appliedLenderId = NoLender
    /\ LenderUnrendered
    /\ ChatUnrendered
    /\ VoiceUnrendered

\* mutant of the effect: no guard, the fetch is started whatever loanApplication is
useEffectRun_unguarded ==
    /\ Mounted
    /\ effectPending
    /\ effectPending' = FALSE
    /\ loading' = TRUE
    /\ inflight' = Append(inflight, loanApplication)
    /\ UNCHANGED << loanApplication, recommendations, selectedFilter, route,
                    servedApplication, navigations, fetchLog, appliedLenderId >>
    /\ UNCHANGED << lenderVars, chatVars, voiceVars >>

\* useEffect, lines 34-174: without an application navigate away and return;
\* otherwise call fetchRecommendations, which runs synchronously up to its
\* await: setLoading(true), then the delay starts.
useEffectRun ==
    /\ Mounted
    /\ effectPending
    /\ effectPending' = FALSE
    /\ IF loanApplication = NoApplication
       THEN /\ route' = BorrowerDashboardPage
            /\ UNCHANGED << inflight, loading >>
       ELSE /\ loading' = TRUE
            /\ inflight' = Append(inflight, loanApplication)
            /\ UNCHANGED route
    /\ UNCHANGED << loanApplication, recommendations, selectedFilter,
                    servedApplication, navigations, fetchLog, appliedLenderId >>
    /\ UNCHANGED << lenderVars, chatVars, voiceVars >>

\* mutant of the fetch's completion: no finally block, loading is left as it is
fetchRecommendationsResolve_noFinally ==
    /\ inflight # << >>
    /\ inflight' = Tail(inflight)
    /\ fetchLog' = Append(fetchLog,
                          [ application |-> Head(inflight),
                            result |-> fetchedRecommendations(Head(inflight)) ])
    /\ IF Mounted
       THEN /\ recommendations' = fetchedRecommendations(Head(inflight))
            /\ servedApplication' = Head(inflight)
       ELSE UNCHANGED << recommendations, servedApplication >>
    /\ UNCHANGED << loanApplication, effectPending, route, selectedFilter,
                    navigations, appliedLenderId, loading >>
    /\ UNCHANGED << lenderVars, chatVars, voiceVars >>

\* mutant of the fetch's completion: it writes into the application it was given
fetchRecommendationsResolve_mutating ==
    /\ inflight # << >>
    /\ inflight' = Tail(inflight)
    /\ fetchLog' = Append(fetchLog,
                          [ application |-> Head(inflight),
                            result |-> fetchedRecommendations(Head(inflight)) ])
    /\ IF Mounted
       THEN /\ recommendations' = fetchedRecommendations(Head(inflight))
            /\ servedApplication' = Head(inflight)
            /\ loading' = FALSE
       ELSE UNCHANGED << recommendations, servedApplication, loading >>
    /\ loanApplication' = IF loanApplication = NoApplication THEN loanApplication
                          ELSE [ loanApplication EXCEPT !.term = 60 ]
    /\ UNCHANGED << effectPending, route, selectedFilter, navigations,
                    appliedLenderId >>
    /\ UNCHANGED << lenderVars, chatVars, voiceVars >>

\* fetchRecommendations after the await, lines 48-170: the 1500 ms timers fire
\* in the order they were set.  setRecommendations(mockRecommendations), then the
\* finally block's setLoading(false).  A state update of a component that has
\* been unmounted is dropped by React.
fetchRecommendationsResolve ==
    /\ inflight # << >>
    /\ inflight' = Tail(inflight)
    /\ fetchLog' = Append(fetchLog,
                          [ application |-> Head(inflight),
                            result |-> fetchedRecommendations(Head(inflight)) ])
    /\ IF Mounted
       THEN /\ recommendations' = fetchedRecommendations(Head(inflight))
            /\ servedApplication' = Head(inflight)
            /\ loading' = FALSE
       ELSE UNCHANGED << recommendations, servedApplication, loading >>
    /\ UNCHANGED << loanApplication, effectPending, route, selectedFilter,
                    navigations, appliedLenderId >>
    /\ UNCHANGED << lenderVars, chatVars, voiceVars >>

\* the filter buttons, lines 293-307, rendered once loading is false
setSelectedFilter(filter) ==
    /\ Mounted
    /\ ~loading
    /\ selectedFilter' = filter
    /\ UNCHANGED << loanApplication, effectPending, route, inflight,
                    recommendations, loading, servedApplication, navigations,
                    fetchLog, appliedLenderId >>
    /\ UNCHANGED << lenderVars, chatVars, voiceVars >>

\* the router hands the mounted page another navigation state: loanApplication
\* (line 32) is another object and the effect's dependency list (line 174), which
\* compares by reference, schedules the effect again, also when the new object
\* has the field values of the old one
locationChange(application) ==
    /\ Mounted
    /\ ~effectPending
    /\ navigations < MaxNavigations
    /\ loanApplication' = application
    /\ effectPending' = TRUE
    /\ navigations' = navigations + 1
    /\ UNCHANGED << route, inflight, recommendations, loading, selectedFilter,
                    servedApplication, fetchLog, appliedLenderId >>
    /\ UNCHANGED << lenderVars, chatVars, voiceVars >>

\* mutant of the Apply button: it is offered for every record the page holds,
\* also one the selected filter hides
handleApplyToLender_unfiltered(lenderId) ==
    /\ Mounted
    /\ ~loading
    /\ \E k \in DOMAIN recommendations :
          /\ recommendations[k].lender.id = lenderId
          /\ recommendations[k].eligibilityStatus # "not_eligible"
    /\ appliedLenderId' = lenderId
    /\ UNCHANGED << loanApplication, effectPending, route, inflight,
                    recommendations, loading, selectedFilter, servedApplication,
                    navigations, fetchLog >>
    /\ UNCHANGED << lenderVars, chatVars, voiceVars >>

\* the Apply button of a card, lines 397-404, and handleApplyToLender, lines
\* 213-216: a card is rendered for each record of filteredRecommendations once
\* loading is false; its button is disabled for a 'not_eligible' record; the
\* handler raises the toast 'Redirecting to lender application...' and changes
\* no state of the page
handleApplyToLender(lenderId) ==
    /\ Mounted
    /\ ~loading
    /\ \E k \in DOMAIN filteredRecommendations :
          /\ filteredRecommendations[k].lender.id = lenderId
          /\ filteredRecommendations[k].eligibilityStatus # "not_eligible"
    /\ appliedLenderId' = lenderId
    /\ UNCHANGED << loanApplication, effectPending, route, inflight,
                    recommendations, loading, selectedFilter, servedApplication,
                    navigations, fetchLog >>
    /\ UNCHANGED << lenderVars, chatVars, voiceVars >>

\* the Back button of the page's header, lines 235-241, rendered once loading
\* is false: navigate('/borrowers/dashboard') without a state.  The page is
\* unmounted; its state is gone, the variables keep what it last was.
backButton ==
    /\ Mounted
    /\ ~effectPending
    /\ ~loading
    /\ route' = BorrowerDashboardPage
    /\ loanApplication' = NoApplication
    /\ UNCHANGED << effectPending, inflight, recommendations, loading,
                    selectedFilter, servedApplication, navigations, fetchLog,
                    appliedLenderId >>
    /\ UNCHANGED << lenderVars, chatVars, voiceVars >>

\* where the menu of the Layout around the page leads: handleLogout and
\* handleProfileClick, BorrowerDashboard.tsx lines 433-443
MenuPages == { "/login", "/profile" }

\* the Logout and Profile entries of the Layout's menu; the Layout is rendered
\* around the spinner as well (lines 220 and 230), so they are there while
\* loading is true
layoutMenu(page) ==
    /\ Mounted
    /\ ~effectPending
    /\ route' = page
    /\ loanApplication' = NoApplication
    /\ UNCHANGED << effectPending, inflight, recommendations, loading,
                    selectedFilter, servedApplication, navigations, fetchLog,
                    appliedLenderId >>
    /\ UNCHANGED << lenderVars, chatVars, voiceVars >>

\* the lenderId values a click can pass: the ids of the literal's lenders
LenderIds == { mockRecommendations[k].lender.id : k \in DOMAIN mockRecommendations }

Next ==
    \/ useEffectRun
    \/ fetchRecommendationsResolve
    \/ \E filter \in Filters : setSelectedFilter(filter)
    \/ \E application \in LaterApplications : locationChange(application)
    \/ \E lenderId \in LenderIds : handleApplyToLender(lenderId)
    \/ backButton
    \/ \E page \in MenuPages : layoutMenu(page)

Spec == Init /\ [][Next]_vars

\* Scheduling.  React runs a scheduled effect after the render that scheduled
\* it, and the timer of line 47 fires 1500 ms after it was set: neither waits
\* for ever.  Clicks and navigations are the user's and may never come.  The
\* page is entered with one of the navigation states of LaterApplications.
FairInit == Init /\ loanApplication \in LaterApplications

FairSpec ==
    /\ FairInit
    /\ [][Next]_vars
    /\ WF_vars(useEffectRun)
    /\ WF_vars(fetchRecommendationsResolve)

---------------------------------------------------------------------------
(* The engine of the specification, sections 4.1 and 4.2, as the claims state
   it: the four eligibility predicates, the amount/term range, and the
   reducing-balance instalment.  The page computes none of these; the claims
   compare what the page shows with them. *)

Includes(seq, x) == \E k \in DOMAIN seq : seq[k] = x

\* the lender offers the page recommends from: the lender of each mock record
Catalogue == { mockRecommendations[k].lender : k \in DOMAIN mockRecommendations }

\* the names of the predicates of section 4.1 that fail for a borrower
FailedPredicates(application, age, lender) ==
    LET criteria == lender.eligibilityCriteria
    IN  { p \in { "creditScore", "monthlyIncome", "age", "employmentType" } :
            \/ p = "creditScore" /\ ~(application.creditScore >= criteria.minCreditScore)
            \/ p = "monthlyIncome" /\ ~(application.monthlyIncome >= criteria.minMonthlyIncome)
            \/ p = "age" /\ ~(age <= criteria.maxAge)
            \/ p = "employmentType"
                 /\ ~Includes(criteria.employmentTypes, application.employmentType) }

\* requestedAmount within [minAmount, maxAmount] and requestedTermMonths <= maxTermMonths
WithinRange(application, lender) ==
    /\ lender.minAmount <= application.amount
    /\ application.amount <= lender.maxAmount
    /\ application.term <= lender.maxTerm

\* the sentence that names a failed predicate as the blocking factor
BlockingReason(p) ==
    CASE p = "creditScore" -> "Minimum credit score not met"
      [] p = "monthlyIncome" -> "Minimum monthly income not met"
      [] p = "age" -> "Maximum age exceeded"
      [] p = "employmentType" -> "Employment type not accepted"

\* (1 + r)^n in millionths, r = rateTenths / 10 / 12 / 100 a month
RECURSIVE Compound(_, _, _)
Compound(p, rateTenths, n) ==
    IF n = 0 THEN p
    ELSE Compound(p + (p * rateTenths) \div 12000, rateTenths, n - 1)

\* EMI = amount * r * (1+r)^n / ((1+r)^n - 1) = amount * r * (1 + 1 / ((1+r)^n - 1))
\* for r > 0, and amount / n for r = 0; in whole rupees, rounded down
ReducingBalanceEMI(amount, rateTenths, n) ==
    IF rateTenths = 0 THEN amount \div n
    ELSE LET monthlyInterest == (amount * rateTenths) \div 12000
             growth == Compound(1000000, rateTenths, n) - 1000000
             perMille == 1000000000 \div growth
         IN  monthlyInterest + (monthlyInterest * perMille) \div 1000

Abs(x) == IF x < 0 THEN -x ELSE x

\* the page shows a result
Shown == recommendations # << >>

---------------------------------------------------------------------------
(* Claims *)

\* C1: the recommendations the page holds are ordered by non-increasing
\* matchScore: a record never precedes one with a higher score.
C1_NonIncreasingMatchScore ==
    \A i, j \in DOMAIN recommendations :
        i < j => recommendations[i].matchScore >= recommendations[j].matchScore

\* a fetch has delivered a batch of several records with different scores
C1_Witness ==
    /\ Len(recommendations) >= 2
    /\ servedApplication \in Applications
    /\ recommendations[1].matchScore > recommendations[Len(recommendations)].matchScore

\* C2: whenever all four predicates hold for the borrower and the requested
\* amount and term are within the offer's range, the verdict is 'eligible'.
C2_EligibleWhenAllHold ==
    Shown =>
        \A i \in DOMAIN recommendations : \A age \in Ages :
            ( /\ FailedPredicates(servedApplication, age, recommendations[i].lender) = {}
              /\ WithinRange(servedApplication, recommendations[i].lender) )
            => recommendations[i].eligibilityStatus = "eligible"

\* C3: one or two failed predicates give 'partially_eligible'; three or four
\* give 'not_eligible', with every failed predicate named among the reasons.
C3_VerdictByFailedCount ==
    Shown =>
        \A i \in DOMAIN recommendations : \A age \in Ages :
            LET rec == recommendations[i]
                failed == FailedPredicates(servedApplication, age, rec.lender)
            IN  /\ Cardinality(failed) \in {1, 2}
                     => rec.eligibilityStatus = "partially_eligible"
                /\ Cardinality(failed) \in {3, 4}
                     => /\ rec.eligibilityStatus = "not_eligible"
                        /\ \A p \in failed : Includes(rec.reasons, BlockingReason(p))

\* C4: an offer whose range does not contain the requested amount or term is
\* still among the recommendations, its verdict is not 'eligible', and it is
\* 'partially_eligible' when none of the four predicates fails.
C4_OutOfRangeNeverEligible ==
    Shown =>
        \A offer \in Catalogue :
            ~WithinRange(servedApplication, offer) =>
                \E i \in DOMAIN recommendations :
                    /\ recommendations[i].lender = offer
                    /\ recommendations[i].eligibilityStatus # "eligible"
                    /\ \A age \in Ages :
                          FailedPredicates(servedApplication, age, offer) = {}
                          => recommendations[i].eligibilityStatus = "partially_eligible"

\* C6: totalInterest is estimatedEMI * term - amount floored at 0 (here up to
\* one rupee of rounding per instalment), it is not negative, and the
\* instalments add up to at least the amount, to more when the rate is above 0.
C6_TotalInterestIdentity ==
    Shown =>
        \A i \in DOMAIN recommendations :
            LET rec == recommendations[i]
                paid == rec.estimatedEMI * servedApplication.term
                interest == IF paid - servedApplication.amount < 0 THEN 0
                            ELSE paid - servedApplication.amount
            IN  /\ Abs(rec.totalInterest - interest) <= servedApplication.term
                /\ rec.totalInterest >= 0
                /\ paid >= servedApplication.amount
                /\ rec.lender.interestRate > 0 => paid > servedApplication.amount

\* C7: estimatedEMI is the reducing-balance instalment of the requested amount
\* and term at the offer's rate (here to within one per cent).
C7_EMIIsReducingBalance ==
    Shown =>
        \A i \in DOMAIN recommendations :
            LET rec == recommendations[i]
                emi == ReducingBalanceEMI(servedApplication.amount,
                                          rec.lender.interestRate,
                                          servedApplication.term)
            IN  Abs(rec.estimatedEMI - emi) * 100 <= emi

\* C8: for the application of Example 1 against the offer of Example 1 (the
\* State Bank of India record) the verdict is 'eligible', the EMI about 15,776
\* and the total interest about 67,936 (here each to within one per cent).
C8_Example1 ==
    (Shown /\ servedApplication = Example1) =>
        \A i \in DOMAIN recommendations :
            recommendations[i].lender = sbiRecommendation.lender =>
                /\ recommendations[i].eligibilityStatus = "eligible"
                /\ Abs(recommendations[i].estimatedEMI - 15776) * 100 <= 15776
                /\ Abs(recommendations[i].totalInterest - 67936) * 100 <= 67936

\* C9: every recommendation the page holds has a verdict that is one of
\* eligible, partially_eligible, not_eligible, and at least one reason.
C9_VerdictAndReasons ==
    \A i \in DOMAIN recommendations :
        /\ recommendations[i].eligibilityStatus
              \in { "eligible", "partially_eligible", "not_eligible" }
        /\ Len(recommendations[i].reasons) >= 1

\* a fetch has delivered records of more than one verdict
C9_Witness ==
    /\ servedApplication \in Applications
    /\ \E i, j \in DOMAIN recommendations :
          recommendations[i].eligibilityStatus # recommendations[j].eligibilityStatus

\* C10: every recommendation's matchScore lies in 0..100, whatever application
\* the fetch was started for.
C10_MatchScoreRange ==
    \A i \in DOMAIN recommendations : recommendations[i].matchScore \in 0..100

\* a fetch for the application of Example 2, which meets hardly any criterion,
\* has delivered its records
C10_Witness ==
    /\ servedApplication = Example2
    /\ Len(recommendations) = 4

---------------------------------------------------------------------------
(* The match score of the specification, section 4.2, in tenths of a point *)

\* eligibility base: eligible 60, partially_eligible 35, not_eligible 10
EligibilityBase(status) ==
    CASE status = "eligible" -> 60
      [] status = "partially_eligible" -> 35
      [] status = "not_eligible" -> 10

\* lender reputation rating / 5 * 15: with the rating in tenths, three times it
ReputationTenths(rating) == rating * 3

\* amount/term fit: 5 points when both are within the offer's ranges, else 0
FitPoints(application, lender) == IF WithinRange(application, lender) THEN 5 ELSE 0

\* round to the nearest integer (Math.round: halves go up), then clamp to [0, 100]
RoundClamp(tenths) ==
    LET rounded == (tenths + 5) \div 10
    IN  IF rounded < 0 THEN 0 ELSE IF rounded > 100 THEN 100 ELSE rounded

\* the sum of the four components, rounded and clamped: the score of a record
\* with this verdict and rating for this application when its
\* rate-competitiveness term is ratePoints tenths of a point
MatchScore(rec, application, ratePoints) ==
    RoundClamp(EligibilityBase(rec.eligibilityStatus) * 10
               + ratePoints
               + ReputationTenths(rec.lender.rating)
               + FitPoints(application, rec.lender) * 10)

\* a profile whose fields are positive where the specification requires it
ValidProfile(application) ==
    /\ application.amount > 0
    /\ application.term > 0
    /\ application.creditScore > 0
    /\ application.monthlyIncome >= 0

---------------------------------------------------------------------------
(* Claims C11 .. C20 *)

\* C11 (tie-break order among equal matchScores) is not settled: the scores of
\* the literal are pairwise different, so no two records the page holds ever tie.

\* what the selected filter asks of a record
C12_Selected(rec) ==
    /\ selectedFilter = "eligible" => rec.eligibilityStatus = "eligible"
    /\ selectedFilter = "top_rated" => rec.lender.rating >= 40

\* the displayed list holds exactly the selected records, in the list's order
C12_FilteredIsSelection ==
    /\ \A k \in DOMAIN filteredRecommendations :
          \E i \in DOMAIN recommendations :
              /\ recommendations[i] = filteredRecommendations[k]
              /\ C12_Selected(recommendations[i])
    /\ \A i \in DOMAIN recommendations :
          C12_Selected(recommendations[i])
          => \E k \in DOMAIN filteredRecommendations :
                 filteredRecommendations[k] = recommendations[i]
    /\ \A k, l \in DOMAIN filteredRecommendations :
          k < l => \E i, j \in DOMAIN recommendations :
                       /\ i < j
                       /\ recommendations[i] = filteredRecommendations[k]
                       /\ recommendations[j] = filteredRecommendations[l]

\* C12: under 'eligible' exactly the records with verdict 'eligible' are
\* displayed, under 'top_rated' exactly those rated 4.0 or more, under 'all'
\* every record; the displayed list is a subsequence of the recommendations in
\* their order, and a change of the filter leaves the recommendations as they are.
C12_FiltersSelectOnly ==
    /\ [] C12_FilteredIsSelection
    /\ [][ selectedFilter' # selectedFilter => recommendations' = recommendations ]_vars

\* 'top_rated' is selected and leaves out a record while keeping the one rated 4.0
C12_Witness ==
    /\ selectedFilter = "top_rated"
    /\ Len(recommendations) = 4
    /\ Len(filteredRecommendations) = 3
    /\ \E k \in DOMAIN filteredRecommendations :
          filteredRecommendations[k].lender.rating = 40

\* C13: no recommendation is produced for a profile with a zero or negative
\* value in a field that must be positive.
C13_InvalidProfileRejected ==
    /\ Shown => ValidProfile(servedApplication)
    /\ \A k \in DOMAIN fetchLog :
          ~ValidProfile(fetchLog[k].application) => fetchLog[k].result = << >>

\* C14: the page holds either no recommendation or the complete batch, one
\* record for every offer of the catalogue; never a part of it.
C14_AllOrNothing ==
    \/ recommendations = << >>
    \/ /\ Len(recommendations) = Cardinality(Catalogue)
       /\ \A offer \in Catalogue :
             \E i \in DOMAIN recommendations : recommendations[i].lender = offer

\* a fetch for a request that the first offer's amount range does not hold has
\* delivered its batch
C14_Witness ==
    /\ Shown
    /\ ~loading
    /\ servedApplication \in Applications
    /\ servedApplication.amount > sbiRecommendation.lender.maxAmount

\* C15: two fetches for applications with the same field values hand over the
\* same list: the same verdicts, reasons, scores, EMIs and total interest.
C15_Deterministic ==
    \A i, j \in DOMAIN fetchLog :
        fetchLog[i].application = fetchLog[j].application
        => fetchLog[i].result = fetchLog[j].result

\* two fetches for the same application have completed
C15_Witness ==
    \E i, j \in DOMAIN fetchLog :
        i < j /\ fetchLog[i].application = fetchLog[j].application

\* C16: overlapping fetches do not interfere: once the page shows a result
\* (loading is false, the effect has run), that result was made by the fetch for
\* the current application and no other fetch is still waiting.
C16_NoInterference ==
    (Mounted /\ ~effectPending /\ ~loading) =>
        /\ inflight = << >>
        /\ servedApplication = loanApplication

\* what is handed over carries the catalogue's lender records as they are
C17_LendersAsInCatalogue ==
    \A k \in DOMAIN fetchLog : \A i \in DOMAIN fetchLog[k].result :
        fetchLog[k].result[i].lender \in Catalogue

\* C17: a fetch, from its start in the effect to its completion, leaves the
\* loan application with the field values it had, and hands over the lender
\* records of the catalogue unchanged.
C17_InputsUnchanged ==
    /\ [] C17_LendersAsInCatalogue
    /\ [][ (fetchLog' # fetchLog \/ inflight' # inflight)
           => loanApplication' = loanApplication ]_vars

\* a fetch for the application the page still holds has completed
C17_Witness ==
    /\ fetchLog # << >>
    /\ loanApplication \in Applications
    /\ fetchLog[Len(fetchLog)].application = loanApplication

\* C18: whatever the application, every completed fetch hands over the same four
\* records: lenders 1..4 with scores 92, 85, 78, 65, verdicts eligible, eligible,
\* eligible, partially_eligible, and the same EMIs and total interest.
C18_RequestIndependent ==
    /\ \A k \in DOMAIN fetchLog :
          LET result == fetchLog[k].result
          IN  /\ Len(result) = 4
              /\ [ i \in 1..4 |-> result[i].lender.id ] = << "1", "2", "3", "4" >>
              /\ [ i \in 1..4 |-> result[i].matchScore ] = << 92, 85, 78, 65 >>
              /\ [ i \in 1..4 |-> result[i].eligibilityStatus ]
                    = << "eligible", "eligible", "eligible", "partially_eligible" >>
              /\ [ i \in 1..4 |-> result[i].estimatedEMI ]
                    = << 12458, 13250, 15123, 16890 >>
              /\ [ i \in 1..4 |-> result[i].totalInterest ]
                    = << 148960, 165000, 225840, 208040 >>
    /\ \A i, j \in DOMAIN fetchLog : fetchLog[i].result = fetchLog[j].result

\* two fetches for applications that differ in amount, term, credit score,
\* income and employment type have completed
C18_Witness ==
    \E i, j \in DOMAIN fetchLog :
        /\ fetchLog[i].application = Example1
        /\ fetchLog[j].application = Example2

\* the interest rates of a batch: all that the rate-competitiveness term of
\* section 4.2 depends on
BatchRates(result) == [ i \in DOMAIN result |-> result[i].lender.interestRate ]

\* C19: every matchScore delivered is the rounded, clamped sum of the base of
\* its verdict (60 / 35 / 10), a rate-competitiveness term within 0..20,
\* rating / 5 * 15, and 5 when the request's amount and term are within the
\* offer's ranges, 0 otherwise.  The rate-competitiveness term is the offer's
\* in its batch: one term accounts for the offer's score in every fetch that
\* returned a batch with the same rates, whatever was requested.
C19_ScoreIsSumOfComponents ==
    \A k \in DOMAIN fetchLog : \A i \in DOMAIN fetchLog[k].result :
        \E ratePoints \in 0..200 :
            \A l \in DOMAIN fetchLog : \A j \in DOMAIN fetchLog[l].result :
                ( /\ BatchRates(fetchLog[l].result) = BatchRates(fetchLog[k].result)
                  /\ fetchLog[l].result[j].lender.id = fetchLog[k].result[i].lender.id )
                => fetchLog[l].result[j].matchScore
                      = MatchScore(fetchLog[l].result[j], fetchLog[l].application,
                                   ratePoints)

\* the rate-competitiveness terms (tenths of a point, within 0..20 points) that
\* a record's matchScore leaves room for when the request is this application
C20_RatePointsLeft(rec, application) ==
    { ratePoints \in 0..200 : rec.matchScore = MatchScore(rec, application, ratePoints) }

\* C20: in every batch shown, each offer with the lowest interest rate has the
\* full 20 rate points, no offer has negative rate points, and an offer never
\* has more rate points than an offer with a lower rate.
C20_RatePointsRelativeToBatch ==
    Shown =>
        LET pts(i) == C20_RatePointsLeft(recommendations[i], servedApplication)
            rate(i) == recommendations[i].lender.interestRate
        IN  /\ \A i \in DOMAIN recommendations :
                  (\A j \in DOMAIN recommendations : rate(i) <= rate(j))
                  => 200 \in pts(i)
            /\ \A i \in DOMAIN recommendations : pts(i) # {}
            /\ \A i, j \in DOMAIN recommendations :
                  rate(i) < rate(j)
                  => \E a \in pts(i), b \in pts(j) : a >= b

---------------------------------------------------------------------------
(* Reasons, section 4.1: what a reason says *)

\* the requirement of the offer a reason sentence names, "none" when it is about
\* something else (the rate, the processing, the kind of customer)
RequirementNamed(reason) ==
    CASE reason \in { "Credit score matches requirement", "High credit score advantage",
                      "Minimum credit score not met" } -> "creditScore"
      [] reason \in { "Income sufficient", "Minimum monthly income not met" }
            -> "monthlyIncome"
      [] reason = "Maximum age exceeded" -> "age"
      [] reason = "Employment type not accepted" -> "employmentType"
      [] reason \in { "Loan amount within limit", "Lower amount limit" } -> "amount"
      [] OTHER -> "none"

\* a reason speaks for the offer ("positive") or against it ("blocking")
ReasonPolarity(reason) ==
    IF reason \in { "Higher interest rate", "Lower amount limit",
                    "Minimum credit score not met", "Minimum monthly income not met",
                    "Maximum age exceeded", "Employment type not accepted" }
    THEN "blocking"
    ELSE "positive"

\* the requirements of the offer the borrower does not meet: the failed
\* predicates, the amount range, the longest term
UnmetRequirements(application, age, lender) ==
    FailedPredicates(application, age, lender)
      \cup (IF lender.minAmount <= application.amount
                /\ application.amount <= lender.maxAmount THEN {} ELSE { "amount" })
      \cup (IF application.term <= lender.maxTerm THEN {} ELSE { "term" })

\* C21: the polarity of the reasons matches the verdict: an 'eligible'
\* recommendation has at least one positive reason; a 'partially_eligible' or
\* 'not_eligible' one has at least one blocking reason that names a requirement
\* the borrower does not meet.
C21_ReasonPolarity ==
    Shown =>
        \A i \in DOMAIN recommendations : \A age \in Ages :
            LET rec == recommendations[i]
                unmet == UnmetRequirements(servedApplication, age, rec.lender)
            IN  /\ rec.eligibilityStatus = "eligible"
                     => \E k \in DOMAIN rec.reasons :
                            ReasonPolarity(rec.reasons[k]) = "positive"
                /\ rec.eligibilityStatus \in { "partially_eligible", "not_eligible" }
                     => \E k \in DOMAIN rec.reasons :
                            /\ ReasonPolarity(rec.reasons[k]) = "blocking"
                            /\ RequirementNamed(rec.reasons[k]) \in unmet

---------------------------------------------------------------------------
(* The page's loading flag, its guard and its Apply buttons *)

\* C25 as stated: in every execution, also when the navigation state holds no
\* loan application, loading is eventually false.
C25_LoadingEventuallyFalse == <>(~loading)

\* C25, amended: whenever the page is mounted and loading, eventually loading
\* is false or the page has been left; leaving the page (by the effect's
\* navigation, the Back button or a menu entry) never resets loading, and the
\* effect that finds no loan application leaves the page with loading as it was.
C25_LoadingResetOrLeft ==
    /\ (Mounted /\ loading) ~> (~loading \/ ~Mounted)
    /\ [][ (Mounted /\ ~Mounted') => (loading' = loading) ]_vars
    /\ [][ (effectPending /\ ~effectPending' /\ loanApplication = NoApplication)
           => (~Mounted' /\ loading' = loading) ]_vars

\* the page was entered again with a loan application and its fetch is over:
\* the spinner has been replaced a second time
C25_Witness ==
    /\ Mounted
    /\ ~loading
    /\ navigations = 1
    /\ Len(fetchLog) = 2

\* what holds of every state: no fetch waits or has completed for an absent
\* application; a page entered without one holds no recommendation and no
\* fetch, and is left as soon as its effect has run; recommendations are
\* non-empty only as the result of a completed fetch for a present application
C26_NoFetchForAbsent ==
    /\ \A k \in DOMAIN inflight : inflight[k] # NoApplication
    /\ \A k \in DOMAIN fetchLog : fetchLog[k].application # NoApplication
    /\ (Mounted /\ loanApplication = NoApplication) => effectPending
    /\ (Mounted /\ navigations = 0 /\ loanApplication = NoApplication)
          => /\ recommendations = << >>
             /\ inflight = << >>
             /\ fetchLog = << >>
    /\ Shown => /\ servedApplication # NoApplication
                /\ \E k \in DOMAIN fetchLog :
                      /\ fetchLog[k].application = servedApplication
                      /\ fetchLog[k].result = recommendations

\* C26: entered without a loan application the page navigates to
\* /borrowers/dashboard, starts no fetch and keeps recommendations as they are
\* (empty on the first entry); no fetch is ever started for an absent
\* application, and recommendations are non-empty only as the result of a
\* completed fetch for a present one.
C26_NoFetchWithoutApplication ==
    /\ [] C26_NoFetchForAbsent
    /\ [][ (effectPending /\ ~effectPending' /\ loanApplication = NoApplication)
           => /\ route' = BorrowerDashboardPage
              /\ inflight' = inflight
              /\ recommendations' = recommendations
              /\ fetchLog' = fetchLog ]_vars

\* the page was entered without a loan application and its effect has run:
\* the page is left for the dashboard and no fetch was ever started
C26_Witness ==
    /\ navigations = 0
    /\ loanApplication = NoApplication
    /\ ~effectPending
    /\ route = BorrowerDashboardPage
    /\ recommendations = << >>
    /\ inflight = << >>
    /\ fetchLog = << >>

\* C27: handleApplyToLender is called only for a recommendation that is
\* displayed under the selected filter and is 'eligible' or
\* 'partially_eligible', never for a 'not_eligible' one.
C27_ApplyOnlyDisplayedAndApplicable ==
    [][ appliedLenderId' # appliedLenderId
        => /\ Mounted
           /\ ~loading
           /\ \E k \in DOMAIN filteredRecommendations :
                 /\ filteredRecommendations[k].lender.id = appliedLenderId'
                 /\ filteredRecommendations[k].eligibilityStatus
                       \in { "eligible", "partially_eligible" } ]_vars

\* Apply was clicked on a card while a filter hid some of the records
C27_Witness ==
    /\ appliedLenderId # NoLender
    /\ selectedFilter # "all"
    /\ Len(filteredRecommendations) < Len(recommendations)

---------------------------------------------------------------------------
(* The LenderDashboard page, LoanRecommendations.tsx lines 441-805 *)

\* how many times handleStatusUpdate is called in all
MaxStatusUpdates == 3

\* LoanApplication['status'], types line 18
LoanStatuses == { "pending", "approved", "rejected", "disbursed" }

\* the options of the status select, lines 634-638
StatusFilters == { "all" } \cup LoanStatuses

\* what loanService.getLoanApplications('lender') may answer: no loan, or two
\* loans in any two states; of a LoanApplication the fields id, amount, status
DashboardLoans ==
    { << >> } \cup
    { << [ id |-> "L1", amount |-> 50000, status |-> a ],
         [ id |-> "L2", amount |-> 200000, status |-> b ] >> :
        a \in LoanStatuses, b \in LoanStatuses }

LoanIds == { "L1", "L2" }

\* toast.success(`Loan ${newStatus} successfully`), line 489
SuccessToast(newStatus) ==
    CASE newStatus = "approved" -> "Loan approved successfully"
      [] newStatus = "rejected" -> "Loan rejected successfully"
      [] newStatus = "disbursed" -> "Loan disbursed successfully"
      [] newStatus = "pending" -> "Loan pending successfully"

\* arrays: the sequence without its k-th entry
RemoveAt(seq, k) == [ i \in 1..(Len(seq) - 1) |-> IF i < k THEN seq[i] ELSE seq[i + 1] ]

\* prev.map(loan => loan.id === loanId ? { ...loan, status: newStatus } : loan),
\* lines 484-488
WithStatus(prev, loanId, newStatus) ==
    [ i \in DOMAIN prev |->
        IF prev[i].id = loanId THEN [ prev[i] EXCEPT !.status = newStatus ]
        ELSE prev[i] ]

\* the dashboard is past its spinner and no effect is waiting to run: React
\* runs the scheduled effects before it handles the next event or update
LenderSettled ==
    /\ dashboardFetch # "scheduled"
    /\ ~filterEffectPending

\* the state after the first render, lines 444-449; both effects are scheduled
InitLender ==
    /\ lenderMounted = TRUE
    /\ loans = << >>
    /\ filteredLoans = << >>
    /\ stats = "null"
    /\ lenderLoading = TRUE
    /\ statusFilter = "all"
    /\ dashboardFetch = "scheduled"
    /\ filterEffectPending = TRUE
    /\ statusRequests = << >>
    /\ lenderToasts = << >>
    /\ PageUnrendered
    /\ ChatUnrendered
    /\ VoiceUnrendered

\* the mount effect, lines 451-471: fetchData runs up to its await
fetchData ==
    /\ lenderMounted
    /\ dashboardFetch = "scheduled"
    /\ dashboardFetch' = "pending"
    /\ UNCHANGED << lenderMounted, loans, filteredLoans, stats, lenderLoading, statusFilter,
                    filterEffectPending, statusRequests, lenderToasts >>
    /\ UNCHANGED << pageVars, chatVars, voiceVars >>

\* fetchData after the await, both calls of Promise.all fulfilled, lines
\* 459-461 and 466: loansData is a new array, so the effect of lines 473-479
\* is scheduled again.  The state updates of an unmounted dashboard are dropped
fetchDataResolve(loansData) ==
    /\ dashboardFetch = "pending"
    /\ ~filterEffectPending
    /\ dashboardFetch' = "done"
    /\ IF lenderMounted
       THEN /\ loans' = loansData
            /\ filteredLoans' = loansData
            /\ stats' = "statsData"
            /\ lenderLoading' = FALSE
            /\ filterEffectPending' = TRUE
       ELSE UNCHANGED << loans, filteredLoans, stats, lenderLoading, filterEffectPending >>
    /\ UNCHANGED << lenderMounted, statusFilter, statusRequests, lenderToasts >>
    /\ UNCHANGED << pageVars, chatVars, voiceVars >>

\* fetchData after the await, a call of Promise.all rejected, lines 462-466;
\* the toast is raised whether the dashboard is mounted or not
fetchDataReject ==
    /\ dashboardFetch = "pending"
    /\ ~filterEffectPending
    /\ dashboardFetch' = "done"
    /\ lenderToasts' = Append(lenderToasts, "Failed to load dashboard data")
    /\ lenderLoading' = (IF lenderMounted THEN FALSE ELSE lenderLoading)
    /\ UNCHANGED << lenderMounted, loans, filteredLoans, stats, statusFilter,
                    filterEffectPending, statusRequests >>
    /\ UNCHANGED << pageVars, chatVars, voiceVars >>

\* mutant of the filter effect: it copies loans whatever the filter is
statusFilterEffect_unfiltered ==
    /\ lenderMounted
    /\ filterEffectPending
    /\ filterEffectPending' = FALSE
    /\ filteredLoans' = loans
    /\ UNCHANGED << lenderMounted, loans, stats, lenderLoading, statusFilter, dashboardFetch,
                    statusRequests, lenderToasts >>
    /\ UNCHANGED << pageVars, chatVars, voiceVars >>

\* the effect of lines 473-479, dependencies [statusFilter, loans]
statusFilterEffect ==
    /\ lenderMounted
    /\ filterEffectPending
    /\ filterEffectPending' = FALSE
    /\ filteredLoans' =
          IF statusFilter = "all" THEN loans
          ELSE LET Keep(loan) == loan.status = statusFilter
               IN  SelectSeq(loans, Keep)
    /\ UNCHANGED << lenderMounted, loans, stats, lenderLoading, statusFilter, dashboardFetch,
                    statusRequests, lenderToasts >>
    /\ UNCHANGED << pageVars, chatVars, voiceVars >>

\* the select's onChange, lines 629-633, rendered once loading is false
setStatusFilter(value) ==
    /\ lenderMounted
    /\ LenderSettled
    /\ ~lenderLoading
    /\ value # statusFilter
    /\ statusFilter' = value
    /\ filterEffectPending' = TRUE
    /\ UNCHANGED << lenderMounted, loans, filteredLoans, stats, lenderLoading, dashboardFetch,
                    statusRequests, lenderToasts >>
    /\ UNCHANGED << pageVars, chatVars, voiceVars >>

\* the buttons of a row, lines 700-727: a row is rendered for each loan of
\* filteredLoans; a pending loan offers 'approved' and 'rejected', an approved
\* loan 'disbursed'.  handleStatusUpdate, lines 481-483, runs up to its await.
handleStatusUpdate(loanId, newStatus) ==
    /\ lenderMounted
    /\ LenderSettled
    /\ ~lenderLoading
    /\ Len(statusRequests) + Len(lenderToasts) < MaxStatusUpdates
    /\ \E k \in DOMAIN filteredLoans :
          /\ filteredLoans[k].id = loanId
          /\ \/ filteredLoans[k].status = "pending"
                /\ newStatus \in { "approved", "rejected" }
             \/ filteredLoans[k].status = "approved" /\ newStatus = "disbursed"
    /\ statusRequests' = Append(statusRequests,
                                [ loanId |-> loanId, newStatus |-> newStatus ])
    /\ UNCHANGED << lenderMounted, loans, filteredLoans, stats, lenderLoading, statusFilter,
                    dashboardFetch, filterEffectPending, lenderToasts >>
    /\ UNCHANGED << pageVars, chatVars, voiceVars >>

\* mutant of the success path: the new status is written into every loan
updateLoanStatusResolve_everyLoan(k) ==
    /\ LenderSettled
    /\ k \in DOMAIN statusRequests
    /\ statusRequests' = RemoveAt(statusRequests, k)
    /\ IF lenderMounted
       THEN /\ loans' = [ i \in DOMAIN loans |->
                           [ loans[i] EXCEPT !.status = statusRequests[k].newStatus ] ]
            /\ filterEffectPending' = TRUE
       ELSE UNCHANGED << loans, filterEffectPending >>
    /\ lenderToasts' = Append(lenderToasts, SuccessToast(statusRequests[k].newStatus))
    /\ UNCHANGED << lenderMounted, filteredLoans, stats, lenderLoading, statusFilter,
                    dashboardFetch >>
    /\ UNCHANGED << pageVars, chatVars, voiceVars >>

\* handleStatusUpdate after the await, the call fulfilled, lines 484-489; the
\* calls are answered in any order.  map returns a new array, so the effect of
\* lines 473-479 is scheduled again.  The setLoans of an unmounted dashboard is
\* dropped; the toast is raised all the same.
updateLoanStatusResolve(k) ==
    /\ LenderSettled
    /\ k \in DOMAIN statusRequests
    /\ statusRequests' = RemoveAt(statusRequests, k)
    /\ IF lenderMounted
       THEN /\ loans' = WithStatus(loans, statusRequests[k].loanId,
                                   statusRequests[k].newStatus)
            /\ filterEffectPending' = TRUE
       ELSE UNCHANGED << loans, filterEffectPending >>
    /\ lenderToasts' = Append(lenderToasts, SuccessToast(statusRequests[k].newStatus))
    /\ UNCHANGED << lenderMounted, filteredLoans, stats, lenderLoading, statusFilter,
                    dashboardFetch >>
    /\ UNCHANGED << pageVars, chatVars, voiceVars >>

\* handleStatusUpdate after the await, the call rejected, lines 490-493
updateLoanStatusReject(k) ==
    /\ LenderSettled
    /\ k \in DOMAIN statusRequests
    /\ statusRequests' = RemoveAt(statusRequests, k)
    /\ lenderToasts' = Append(lenderToasts, "Failed to update loan status")
    /\ UNCHANGED << lenderMounted, loans, filteredLoans, stats, lenderLoading, statusFilter,
                    dashboardFetch, filterEffectPending >>
    /\ UNCHANGED << pageVars, chatVars, voiceVars >>

\* Layout's handleLogout and handleProfileClick (BorrowerDashboard.tsx
\* 433-443): the dashboard renders Layout around its spinner and around its
\* content (lines 526-537), the router leaves the page and the dashboard is
\* unmounted; its state is gone, the variables keep what it last was
lenderLayoutMenu ==
    /\ lenderMounted
    /\ LenderSettled
    /\ lenderMounted' = FALSE
    /\ UNCHANGED << loans, filteredLoans, stats, lenderLoading, statusFilter,
                    dashboardFetch, filterEffectPending, statusRequests, lenderToasts >>
    /\ UNCHANGED << pageVars, chatVars, voiceVars >>

NextLender ==
    \/ fetchData
    \/ \E loansData \in DashboardLoans : fetchDataResolve(loansData)
    \/ fetchDataReject
    \/ statusFilterEffect
    \/ \E value \in StatusFilters : setStatusFilter(value)
    \/ \E loanId \in LoanIds, newStatus \in LoanStatuses :
          handleStatusUpdate(loanId, newStatus)
    \/ \E k \in 1..MaxStatusUpdates : updateLoanStatusResolve(k)
    \/ \E k \in 1..MaxStatusUpdates : updateLoanStatusReject(k)
    \/ lenderLayoutMenu

SpecLender == InitLender /\ [][NextLender]_vars

\* the moves of a loan's status the buttons stand for
AllowedMove(old, new) ==
    \/ new = old
    \/ old = "pending" /\ new \in { "approved", "rejected" }
    \/ old = "approved" /\ new = "disbursed"

Last(seq) == seq[Len(seq)]

\* C22: whatever the interleaving of status updates and their completions, a
\* loan's status only moves pending -> approved, pending -> rejected or
\* approved -> disbursed: a rejected or disbursed loan keeps its status, an
\* approved loan never becomes rejected.
C22_StatusMovesForward ==
    [][ dashboardFetch = "done"
        => \A i \in DOMAIN loans : AllowedMove(loans[i].status, loans'[i].status) ]_vars

\* what a fulfilled call k does to loans: the loan with the call's id gets the
\* new status, no other loan and no other field changes
C23_TargetOnly(k) ==
    /\ DOMAIN loans' = DOMAIN loans
    /\ \A i \in DOMAIN loans :
          IF loans[i].id = statusRequests[k].loanId
          THEN /\ loans'[i].status = statusRequests[k].newStatus
               /\ loans'[i].id = loans[i].id
               /\ loans'[i].amount = loans[i].amount
          ELSE loans'[i] = loans[i]

\* C23 as stated: handleStatusUpdate changes loans only on success and only in
\* its target: a failed call leaves loans as it is; a fulfilled call gives the
\* loan with the call's id the new status and changes no other loan and no
\* other field.
C23_UpdateOnlyTargetOnSuccess ==
    [][ Len(lenderToasts') > Len(lenderToasts)
        => \/ /\ Last(lenderToasts') \in { "Failed to update loan status",
                                           "Failed to load dashboard data" }
              /\ loans' = loans
           \/ \E k \in DOMAIN statusRequests :
                 /\ Last(lenderToasts') = SuccessToast(statusRequests[k].newStatus)
                 /\ statusRequests' = RemoveAt(statusRequests, k)
                 /\ C23_TargetOnly(k) ]_vars

\* C23, amended: a failed call leaves loans as it is; a call fulfilled while
\* the dashboard is mounted gives the loan with the call's id the new status
\* and changes no other loan and no other field; a call fulfilled after the
\* dashboard was left raises its success toast and changes nothing.
C23_UpdateOnlyTargetWhileMounted ==
    [][ Len(lenderToasts') > Len(lenderToasts)
        => \/ /\ Last(lenderToasts') \in { "Failed to update loan status",
                                           "Failed to load dashboard data" }
              /\ loans' = loans
           \/ \E k \in DOMAIN statusRequests :
                 /\ Last(lenderToasts') = SuccessToast(statusRequests[k].newStatus)
                 /\ statusRequests' = RemoveAt(statusRequests, k)
                 /\ IF lenderMounted THEN C23_TargetOnly(k) ELSE loans' = loans ]_vars

\* with the dashboard mounted one status update has failed and another has
\* changed one of two loans
C23_Witness ==
    /\ lenderMounted
    /\ \E i \in DOMAIN lenderToasts : lenderToasts[i] = "Failed to update loan status"
    /\ \E i \in DOMAIN lenderToasts : lenderToasts[i] = "Loan approved successfully"
    /\ \E i, j \in DOMAIN loans : loans[i].status = "approved" /\ loans[j].status = "pending"

\* C24: once the effects have run, filteredLoans is loans when statusFilter is
\* 'all', and otherwise exactly the loans whose status is statusFilter, in the
\* order of loans.
C24_FilteredLoansFollow ==
    ~filterEffectPending =>
        filteredLoans =
            IF statusFilter = "all" THEN loans
            ELSE LET Keep(loan) == loan.status = statusFilter
                 IN  SelectSeq(loans, Keep)

\* under the filter 'pending' a loan has been approved and has left the rows
C24_Witness ==
    /\ statusFilter = "pending"
    /\ ~filterEffectPending
    /\ Len(filteredLoans) < Len(loans)
    /\ \E i \in DOMAIN lenderToasts : lenderToasts[i] = "Loan approved successfully"

---------------------------------------------------------------------------
(* The ChatBot widget, unnamed/part_002 lines 11-226, under each of its three
   parents.  Layout (BorrowerDashboard.tsx 384-553) renders it always, without
   aiType, and hides it with open = false: its state is kept while hidden.  The
   two dashboards render it only while a chatbot is selected: closing it
   unmounts it and opening it again mounts a new one.  What the user types is a
   sequence of characters; the texts of the bot are strings. *)

\* how long a widget's transcript is at most when a message is submitted: the
\* greeting, an exchange and the message of the second exchange
MaxMessages == 4

\* how many times a dashboard mounts the widget
MaxChatOpens == 2

\* the components that render the widget
ChatParents == { "Layout", "BorrowerDashboard", "LenderDashboard" }

\* the aiType a parent's buttons pass to handleAIChatOpen and on to the widget
\* (BorrowerDashboard.tsx 315-337, LoanRecommendations.tsx 746-779); the
\* borrower's 'voiceagent' button opens the VoiceAssistant instead (line 58)
OpenedAiTypes(parent) ==
    CASE parent = "BorrowerDashboard" -> { "credwise", "loanpathshala", "riskraahi" }
      [] parent = "LenderDashboard" -> { "risk-assessment", "portfolio-optimizer",
                                         "market-analytics", "fraud-detection" }
      [] OTHER -> {}

\* the aiType prop: one of the named agents, or none
AiTypes == { "undefined" } \cup UNION { OpenedAiTypes(parent) : parent \in ChatParents }

\* getAIContext, lines 12-33
getAIContext(type) ==
    CASE type = "credwise" ->
           "You are CredWise, a Credit Metric Explainer Agent specialized in helping users understand credit terms, factors, and scores. Break down complex credit concepts into simple, easy-to-understand explanations. Focus on practical advice for improving credit health and financial literacy."
      [] type = "loanpathshala" ->
           "You are LoanPathshala, an Educational Content Agent for loans and finance. Deliver clear explainers, tutorials, guides, and answer FAQs about loans and financial concepts. Make complex financial topics accessible to everyone, especially those new to formal banking."
      [] type = "riskraahi" ->
           "You are RiskRaahi, a Loan Risk Advisor Agent that evaluates risk and gives advice on the best loan options. Guide users through the maze of loan risks, help them understand different loan products, and recommend the safest credit routes based on their financial situation."
      [] type = "voiceagent" ->
           "You are Vaanee, an English Voice Assistant that communicates through speech, not text. You should provide responses that are optimized for audio delivery - clear, conversational, and easy to understand when spoken aloud. Use simple language and short sentences that work well with text-to-speech systems. Focus on making financial services accessible through voice interaction in English."
      [] type = "risk-assessment" ->
           "You are a Risk Assessment Tool for lenders. Help assess borrower risk, analyze loan applications, evaluate creditworthiness, and provide insights for lending decisions."
      [] type = "portfolio-optimizer" ->
           "You are a Portfolio Optimizer for lenders. Help optimize loan portfolios, analyze performance metrics, suggest diversification strategies, and improve overall lending portfolio health."
      [] type = "market-analytics" ->
           "You are a Market Analytics expert for lenders. Provide insights on market trends, competitive analysis, interest rate movements, and market opportunities in the lending sector."
      [] type = "fraud-detection" ->
           "You are a Fraud Detection specialist for lenders. Help identify suspicious patterns, red flags in applications, fraud prevention strategies, and security best practices in lending."
      [] OTHER -> ""

\* getInitialMessage, lines 35-56
getInitialMessage(type) ==
    CASE type = "credwise" ->
           "Hello! I am CredWise, your credit companion. I help you understand credit scores, terms, and factors in simple language. Whether you are new to credit or want to improve your score, I am here to make it crystal clear. What would you like to know about credit?"
      [] type = "loanpathshala" ->
           "Welcome to LoanPathshala! I am your financial education buddy, here to teach you everything about loans and finance through easy tutorials and guides. Think of me as your personal finance teacher. What financial topic would you like to learn about today?"
      [] type = "riskraahi" ->
           "Hello! I am RiskRaahi, your loan risk advisor and guide. I help you navigate through different loan options, understand risks, and find the safest credit path for your needs. What kind of loan guidance are you looking for?"
      [] type = "voiceagent" ->
           "Hello! I am Vaanee - your voice assistant. I am a voice assistant that listens to your questions and responds with audio. Please note: This is currently a text preview of what I would say. For full voice interaction, please use the voice feature in your app. What would you like to know?"
      [] type = "risk-assessment" ->
           "Hello! I am your Risk Assessment Tool. I can help you evaluate borrower profiles, assess loan applications, and analyze creditworthiness. What would you like to assess?"
      [] type = "portfolio-optimizer" ->
           "Hi! I am your Portfolio Optimizer. I can help you analyze your loan portfolio, suggest optimization strategies, and improve overall performance. How can I assist with your portfolio?"
      [] type = "market-analytics" ->
           "Welcome! I am your Market Analytics expert. I can provide insights on lending market trends, competitive analysis, and opportunities. What market data would you like to explore?"
      [] type = "fraud-detection" ->
           "Hello! I am your Fraud Detection specialist. I can help identify suspicious patterns, analyze risk indicators, and suggest prevention strategies. What would you like me to analyze?"
      [] OTHER -> "Hello! How can I assist you today?"

\* the first transcript of a widget rendered with the given aiType, lines 81-83
Greeting(type) == << [ from |-> "bot", text |-> getInitialMessage(type) ] >>

\* the catch branch's text, lines 193-196
Apology ==
    "I apologize, but I'm having trouble connecting right now. Please try again in a moment."

\* the characters String.prototype.trim removes: ECMAScript's WhiteSpace and
\* LineTerminator.  Those that have no escape in a TLA+ string are written as
\* their code point
WhiteSpace ==
    { " ", "\t", "\n", "\r", "\f", "U+000B", "U+00A0", "U+FEFF", "U+1680",
      "U+2000", "U+2001", "U+2002", "U+2003", "U+2004", "U+2005", "U+2006",
      "U+2007", "U+2008", "U+2009", "U+200A", "U+2028", "U+2029", "U+202F",
      "U+205F", "U+3000" }

\* what the user may have in the text field
TypedInputs ==
    { << >>, << " ", "\n", "\t" >>, << "U+00A0", "h", "i", "\t" >>, << "o", " ", "k" >> }

\* what geminiChatService.sendMessage may answer
BotResponses == { "Pay your EMIs on time." }

\* String.prototype.trim: the text without its leading and trailing white space
RECURSIVE TrimStart(_)
TrimStart(chars) ==
    IF chars # << >> /\ Head(chars) \in WhiteSpace THEN TrimStart(Tail(chars)) ELSE chars

RECURSIVE TrimEnd(_)
TrimEnd(chars) ==
    IF chars # << >> /\ chars[Len(chars)] \in WhiteSpace
    THEN TrimEnd(SubSeq(chars, 1, Len(chars) - 1))
    ELSE chars

Trim(chars) == TrimEnd(TrimStart(chars))

\* contextualMessage, lines 182-186, as the parts of the template
ContextualMessage(type, userMessage) ==
    IF type # "undefined"
    THEN << getAIContext(type), "\n\nUser Question: ", userMessage >>
    ELSE << userMessage >>

\* the state after the parent's first render: Layout has rendered the widget
\* with open = false (BorrowerDashboard.tsx 406, 548), a dashboard has no
\* chatbot selected and renders none (line 26; LoanRecommendations.tsx 449)
InitChat ==
    /\ chatParent \in ChatParents
    /\ chatMounted = (chatParent = "Layout")
    /\ chatInstance = (IF chatParent = "Layout" THEN 1 ELSE 0)
    /\ chatOpen = FALSE
    /\ aiType = "undefined"
    /\ messages = (IF chatParent = "Layout" THEN Greeting("undefined") ELSE << >>)
    /\ input = << >>
    /\ isLoading = FALSE
    /\ chatRequests = << >>
    /\ PageUnrendered
    /\ LenderUnrendered
    /\ VoiceUnrendered

\* a dashboard's handleAIChatOpen (BorrowerDashboard.tsx 57-63,
\* LoanRecommendations.tsx 496-498): setActiveChatbot(aiType).  With no chatbot
\* selected the widget is mounted, its state initialized by lines 81-85; with
\* one selected the mounted widget is rendered again with the new aiType and
\* keeps its state
handleAIChatOpen(type) ==
    /\ type \in OpenedAiTypes(chatParent)
    /\ aiType' = type
    /\ IF chatMounted
       THEN UNCHANGED << chatMounted, chatOpen, chatInstance, messages, input, isLoading >>
       ELSE /\ chatInstance < MaxChatOpens
            /\ chatMounted' = TRUE
            /\ chatOpen' = TRUE
            /\ chatInstance' = chatInstance + 1
            /\ messages' = Greeting(type)
            /\ input' = << >>
            /\ isLoading' = FALSE
    /\ UNCHANGED << chatParent, chatRequests >>
    /\ UNCHANGED << pageVars, lenderVars, voiceVars >>

\* Layout's toggleChat, BorrowerDashboard.tsx 449-452: the kept widget is shown
\* or hidden
toggleChat ==
    /\ chatParent = "Layout"
    /\ chatMounted
    /\ chatOpen' = ~chatOpen
    /\ UNCHANGED << chatParent, chatMounted, chatInstance, aiType, messages, input,
                    isLoading, chatRequests >>
    /\ UNCHANGED << pageVars, lenderVars, voiceVars >>

\* Layout's handleLogout and handleProfileClick, BorrowerDashboard.tsx 433-443:
\* the router leaves the page; the page's Layout with its widget is unmounted,
\* and so is the widget of a dashboard, which renders inside Layout
\* (BorrowerDashboard.tsx 112-377, LoanRecommendations.tsx 526-537)
layoutNavigate ==
    /\ chatMounted
    /\ chatMounted' = FALSE
    /\ chatOpen' = FALSE
    /\ UNCHANGED << chatParent, chatInstance, aiType, messages, input, isLoading,
                    chatRequests >>
    /\ UNCHANGED << pageVars, lenderVars, voiceVars >>

\* the text field's onChange, lines 202-207; the field is disabled while isLoading
setInput(value) ==
    /\ chatMounted
    /\ chatOpen
    /\ ~isLoading
    /\ input' = value
    /\ UNCHANGED << chatParent, chatMounted, chatOpen, chatInstance, aiType, messages,
                    isLoading, chatRequests >>
    /\ UNCHANGED << pageVars, lenderVars, voiceVars >>

\* the form's onSubmit up to its await, lines 169-189
onSubmit ==
    /\ chatMounted
    /\ chatOpen
    /\ Len(messages) < MaxMessages
    /\ IF Trim(input) = << >> \/ isLoading
       THEN UNCHANGED << input, isLoading, messages, chatRequests >>
       ELSE /\ input' = << >>
            /\ isLoading' = TRUE
            /\ messages' = Append(messages, [ from |-> "user", text |-> Trim(input) ])
            /\ chatRequests' = Append(chatRequests,
                                      [ instance |-> chatInstance,
                                        message |-> ContextualMessage(aiType, Trim(input)) ])
    /\ UNCHANGED << chatParent, chatMounted, chatOpen, chatInstance, aiType >>
    /\ UNCHANGED << pageVars, lenderVars, voiceVars >>

\* the widget that sent request k is still mounted: its state updates take
\* effect, those of an unmounted widget are dropped
SenderMounted(k) == chatMounted /\ chatRequests[k].instance = chatInstance

\* onSubmit after the await, the call fulfilled, lines 189-190 and 197-199
sendMessageResolve(k, botResponse) ==
    /\ k \in DOMAIN chatRequests
    /\ chatRequests' = RemoveAt(chatRequests, k)
    /\ IF SenderMounted(k)
       THEN /\ messages' = Append(messages, [ from |-> "bot", text |-> botResponse ])
            /\ isLoading' = FALSE
       ELSE UNCHANGED << messages, isLoading >>
    /\ UNCHANGED << chatParent, chatMounted, chatOpen, chatInstance, aiType, input >>
    /\ UNCHANGED << pageVars, lenderVars, voiceVars >>

\* mutant of the catch branch: the failure is logged and no apology is appended
sendMessageReject_silent(k) ==
    /\ k \in DOMAIN chatRequests
    /\ chatRequests' = RemoveAt(chatRequests, k)
    /\ IF SenderMounted(k)
       THEN /\ isLoading' = FALSE
            /\ UNCHANGED messages
       ELSE UNCHANGED << messages, isLoading >>
    /\ UNCHANGED << chatParent, chatMounted, chatOpen, chatInstance, aiType, input >>
    /\ UNCHANGED << pageVars, lenderVars, voiceVars >>

\* onSubmit after the await, the call rejected, lines 191-199
sendMessageReject(k) ==
    /\ k \in DOMAIN chatRequests
    /\ chatRequests' = RemoveAt(chatRequests, k)
    /\ IF SenderMounted(k)
       THEN /\ messages' = Append(messages, [ from |-> "bot", text |-> Apology ])
            /\ isLoading' = FALSE
       ELSE UNCHANGED << messages, isLoading >>
    /\ UNCHANGED << chatParent, chatMounted, chatOpen, chatInstance, aiType, input >>
    /\ UNCHANGED << pageVars, lenderVars, voiceVars >>

\* the close button, line 110, calls the parent's onClose.  Layout's is
\* setIsChatOpen(false) (BorrowerDashboard.tsx 548): the widget is hidden and
\* keeps its state.  A dashboard's clears activeChatbot (BorrowerDashboard.tsx
\* 65-67, LoanRecommendations.tsx 500-502): the widget is unmounted; its state
\* is gone, the variables keep what it last was
onClose ==
    /\ chatMounted
    /\ chatOpen
    /\ chatOpen' = FALSE
    /\ chatMounted' = (chatParent = "Layout")
    /\ UNCHANGED << chatParent, chatInstance, aiType, messages, input, isLoading,
                    chatRequests >>
    /\ UNCHANGED << pageVars, lenderVars, voiceVars >>

\* the requests that can be waiting at once
ChatRequestSlots == 1..(MaxMessages * MaxChatOpens)

\* a waiting call is answered or fails
sendMessageSettle ==
    \/ \E k \in ChatRequestSlots, botResponse \in BotResponses :
          sendMessageResolve(k, botResponse)
    \/ \E k \in ChatRequestSlots : sendMessageReject(k)

NextChat ==
    \/ \E type \in AiTypes : handleAIChatOpen(type)
    \/ toggleChat
    \/ layoutNavigate
    \/ \E value \in TypedInputs : setInput(value)
    \/ onSubmit
    \/ sendMessageSettle
    \/ onClose

SpecChat == InitChat /\ [][NextChat]_vars

\* Scheduling.  A call of geminiChatService.sendMessage is a network request:
\* it is answered or it fails, it does not wait for ever.  Opening, typing,
\* submitting, closing and leaving the page are the user's.
FairSpecChat == SpecChat /\ WF_vars(sendMessageSettle)

\* C28: at most one AI request is in flight; from a state in which isLoading
\* is true or the input is blank no step appends a user message or sends a
\* request; and while the widget is mounted isLoading is true exactly while a
\* request it sent is waiting.
C28_OneRequestInFlight ==
    /\ [] (Len(chatRequests) <= 1)
    /\ [] (chatMounted => (isLoading <=> \E k \in DOMAIN chatRequests : SenderMounted(k)))
    /\ [][ (isLoading \/ Trim(input) = << >>)
           => /\ Len(chatRequests') <= Len(chatRequests)
              /\ (chatInstance' = chatInstance /\ Len(messages') > Len(messages))
                    => Last(messages').from = "bot" ]_vars

\* C29 as stated: every accepted user message is eventually followed by a bot
\* message.
C29_EveryUserMessageAnswered ==
    (messages # << >> /\ Last(messages).from = "user")
      ~> (messages # << >> /\ Last(messages).from = "bot")

\* the transcript of a rendered widget: a greeting, then user, bot, user, ...,
\* every bot message an answer or the apology
C29_Alternating ==
    chatInstance > 0 =>
        /\ messages # << >>
        /\ \E type \in AiTypes : SubSeq(messages, 1, 1) = Greeting(type)
        /\ \A i \in 2..Len(messages) :
              messages[i].from = (IF i % 2 = 0 THEN "user" ELSE "bot")
        /\ \A i \in 2..Len(messages) :
              messages[i].from = "bot"
              => messages[i].text \in BotResponses \cup { Apology }

\* C29, amended: a widget's transcript starts with the greeting of the aiType
\* it is mounted with (and keeps it when a dashboard hands the mounted widget
\* another aiType), is only ever appended to while the widget is mounted,
\* alternates user, bot, user, ... after the greeting, and a user message is
\* eventually followed by one bot message (an answer or the apology) unless the
\* widget is unmounted first.
C29_TranscriptAlternates ==
    /\ [] C29_Alternating
    /\ [][ chatInstance' # chatInstance => messages' = Greeting(aiType') ]_vars
    /\ [][ chatInstance' = chatInstance
           => /\ Len(messages') \in { Len(messages), Len(messages) + 1 }
              /\ SubSeq(messages', 1, Len(messages)) = messages ]_vars
    /\ (chatMounted /\ Last(messages).from = "user")
          ~> (~chatMounted \/ Last(messages).from = "bot")

\* Layout's widget was hidden while its second request was waiting and the
\* answer came while it was hidden: the transcript holds the greeting, a
\* message, the apology, a message and an answer
C29_Witness ==
    /\ chatParent = "Layout"
    /\ chatMounted
    /\ ~chatOpen
    /\ Len(messages) = 5
    /\ messages[3].text = Apology
    /\ messages[5].text \in BotResponses
    /\ ~isLoading

---------------------------------------------------------------------------
(* The VoiceAssistant, components/common/VoiceAssistant.tsx, in a browser that
   has webkitSpeechRecognition.  BorrowerDashboard renders it only while
   showVoiceAssistant is true (lines 370-376): closing it unmounts it, and the
   'voiceagent' card mounts a new one with fresh state and a recognition object
   of its own.  window.speechSynthesis is the browser's and the same for every
   assistant; a recognition object and the handlers an assistant gave to the
   browser outlive it.  State updates of an assistant that is no longer mounted
   are dropped, what its handlers do to the browser is not. *)

\* how often the assistant is opened
MaxVoiceOpens == 2

\* how many cancelled utterances can be waiting for their onend / onerror
MaxCancelled == 2

\* what the recognition may hear as a final transcript
FinalTranscripts == { "what is a credit score", "how do I repay early" }

\* the catch branch's text, line 97
VoiceErrorMsg == "Sorry, I am unable to connect right now. Please try again."

\* the context of line 89
VoiceContext ==
    "You are Vaanee, an English Voice Assistant for financial services. Provide clear, conversational responses optimized for audio delivery. Use simple language and short sentences. Focus on making financial services accessible through voice interaction in English."

\* the dashboard after its first render: useState(false) of showVoiceAssistant,
\* BorrowerDashboard line 27, no assistant has been mounted
InitVoice ==
    /\ VoiceUnrendered
    /\ PageUnrendered
    /\ LenderUnrendered
    /\ ChatUnrendered

\* the assistant mounted as the instance-th is the one on the screen: its
\* state updates take effect
AssistantMounted(instance) == voiceMounted /\ instance = voiceInstance

\* the 'voiceagent' card, BorrowerDashboard line 348, and handleAIChatOpen,
\* lines 57-59: setShowVoiceAssistant(true).  While no assistant is rendered a
\* new one is mounted: the useState initial values, lines 13-17, and the mount
\* effect, lines 36-74, which makes a recognition object and takes
\* window.speechSynthesis as it is.  While one is rendered nothing changes.
handleVoiceAssistantOpen ==
    /\ IF voiceMounted
       THEN UNCHANGED voiceVars
       ELSE /\ voiceInstance < MaxVoiceOpens
            /\ voiceMounted' = TRUE
            /\ voiceInstance' = voiceInstance + 1
            /\ isListening' = FALSE
            /\ isSpeaking' = FALSE
            /\ transcript' = ""
            /\ response' = ""
            /\ isProcessing' = FALSE
            /\ recognition' = Append(recognition, "idle")
            /\ cancelled' = 0
            /\ UNCHANGED << utterance, voiceRequests >>
    /\ UNCHANGED << pageVars, lenderVars, chatVars >>

\* recognition.stop(), lines 78 and 132: a session that listens stops and
\* may return what it has heard so far; one that has not begun to listen ends
recognitionStop(session) ==
    CASE session = "active" -> "stopping"
      [] session = "starting" -> "ending"
      [] OTHER -> session

\* the microphone button while not listening, lines 242-243, and
\* startListening, lines 122-128; start() on a session that has already been
\* started throws after the two state updates
startListening ==
    /\ voiceMounted
    /\ ~isListening
    /\ ~(isProcessing \/ isSpeaking)
    /\ transcript' = ""
    /\ response' = ""
    /\ recognition' = [ recognition EXCEPT
                          ![voiceInstance] = IF @ = "idle" THEN "starting" ELSE @ ]
    /\ UNCHANGED << voiceMounted, voiceInstance, isListening, isSpeaking, isProcessing,
                    utterance, cancelled, voiceRequests >>
    /\ UNCHANGED << pageVars, lenderVars, chatVars >>

\* recognition.onstart of the instance-th assistant's session, lines 44-46
recognitionOnStart(instance) ==
    /\ instance \in DOMAIN recognition
    /\ recognition[instance] = "starting"
    /\ recognition' = [ recognition EXCEPT ![instance] = "active" ]
    /\ isListening' = IF AssistantMounted(instance) THEN TRUE ELSE isListening
    /\ UNCHANGED << voiceMounted, voiceInstance, isSpeaking, transcript, response,
                    isProcessing, utterance, cancelled, voiceRequests >>
    /\ UNCHANGED << pageVars, lenderVars, chatVars >>

\* recognition.onresult with a final transcript, lines 48-59, and
\* handleVoiceInput up to its await, lines 86-92; a session that was told to
\* stop may still deliver what it has heard.  continuous is false: the session
\* ends after its final result.
recognitionOnResult(instance, finalTranscript) ==
    /\ instance \in DOMAIN recognition
    /\ recognition[instance] \in { "active", "stopping" }
    /\ recognition' = [ recognition EXCEPT ![instance] = "ending" ]
    /\ voiceRequests' =
          Append(voiceRequests,
                 [ instance |-> instance,
                   message |-> << VoiceContext, "\n\nUser Question: ", finalTranscript >> ])
    /\ IF AssistantMounted(instance)
       THEN /\ transcript' = finalTranscript
            /\ isProcessing' = TRUE
       ELSE UNCHANGED << transcript, isProcessing >>
    /\ UNCHANGED << voiceMounted, voiceInstance, isListening, isSpeaking, response,
                    utterance, cancelled >>
    /\ UNCHANGED << pageVars, lenderVars, chatVars >>

\* recognition.onerror, lines 61-64; the error is followed by onend
recognitionOnError(instance) ==
    /\ instance \in DOMAIN recognition
    /\ recognition[instance] \in { "starting", "active" }
    /\ recognition' = [ recognition EXCEPT ![instance] = "ending" ]
    /\ isListening' = IF AssistantMounted(instance) THEN FALSE ELSE isListening
    /\ UNCHANGED << voiceMounted, voiceInstance, isSpeaking, transcript, response,
                    isProcessing, utterance, cancelled, voiceRequests >>
    /\ UNCHANGED << pageVars, lenderVars, chatVars >>

\* recognition.onend, lines 66-68
recognitionOnEnd(instance) ==
    /\ instance \in DOMAIN recognition
    /\ recognition[instance] \in { "stopping", "ending" }
    /\ recognition' = [ recognition EXCEPT ![instance] = "idle" ]
    /\ isListening' = IF AssistantMounted(instance) THEN FALSE ELSE isListening
    /\ UNCHANGED << voiceMounted, voiceInstance, isSpeaking, transcript, response,
                    isProcessing, utterance, cancelled, voiceRequests >>
    /\ UNCHANGED << pageVars, lenderVars, chatVars >>

\* the microphone button while listening, lines 242-243, and stopListening,
\* lines 130-134
stopListening ==
    /\ voiceMounted
    /\ isListening
    /\ ~(isProcessing \/ isSpeaking)
    /\ recognition' = [ recognition EXCEPT ![voiceInstance] = recognitionStop(@) ]
    /\ UNCHANGED << voiceMounted, voiceInstance, isListening, isSpeaking, transcript,
                    response, isProcessing, utterance, cancelled, voiceRequests >>
    /\ UNCHANGED << pageVars, lenderVars, chatVars >>

\* speechSynthesis.cancel(), lines 107 and 138, takes the utterance out of the
\* queue; its onend or onerror (lines 115-116) is delivered later, and counts
\* when the assistant that made the utterance is the one mounted
CancelledNow == utterance # NoUtterance /\ AssistantMounted(utterance.owner)

\* speakResponse, lines 105-120, called by the instance-th assistant:
\* synthRef.current is set from the mount effect on and never cleared, so the
\* branch is always taken: cancel what is being spoken, hand the new utterance,
\* whose handlers are this assistant's, to speechSynthesis.  No state is set.
speakResponse(text, instance) == [ text |-> text, started |-> FALSE, owner |-> instance ]

\* handleVoiceInput after the await, lines 92-94 and 100-102 when the call was
\* fulfilled, lines 95-102 when it was rejected: text is the answer or the
\* error message.  setResponse and setIsProcessing are dropped when the
\* assistant that sent the call is no longer mounted; speakResponse acts on the
\* browser all the same.  isSpeaking is left as it is.
handleVoiceInputSettle(k, text) ==
    /\ k \in DOMAIN voiceRequests
    /\ CancelledNow => cancelled < MaxCancelled
    /\ voiceRequests' = RemoveAt(voiceRequests, k)
    /\ utterance' = speakResponse(text, voiceRequests[k].instance)
    /\ cancelled' = IF CancelledNow THEN cancelled + 1 ELSE cancelled
    /\ IF AssistantMounted(voiceRequests[k].instance)
       THEN /\ response' = text
            /\ isProcessing' = FALSE
       ELSE UNCHANGED << response, isProcessing >>
    /\ UNCHANGED << voiceMounted, voiceInstance, isListening, isSpeaking, transcript,
                    recognition >>
    /\ UNCHANGED << pageVars, lenderVars, chatVars >>

\* utterance.onstart, line 114: the utterance begins to sound
utteranceOnStart ==
    /\ utterance # NoUtterance
    /\ ~utterance.started
    /\ utterance' = [ utterance EXCEPT !.started = TRUE ]
    /\ isSpeaking' = IF AssistantMounted(utterance.owner) THEN TRUE ELSE isSpeaking
    /\ UNCHANGED << voiceMounted, voiceInstance, isListening, transcript, response,
                    isProcessing, recognition, cancelled, voiceRequests >>
    /\ UNCHANGED << pageVars, lenderVars, chatVars >>

\* utterance.onend, line 115: the utterance has been spoken
utteranceOnEnd ==
    /\ utterance # NoUtterance
    /\ utterance.started
    /\ utterance' = NoUtterance
    /\ isSpeaking' = IF AssistantMounted(utterance.owner) THEN FALSE ELSE isSpeaking
    /\ UNCHANGED << voiceMounted, voiceInstance, isListening, transcript, response,
                    isProcessing, recognition, cancelled, voiceRequests >>
    /\ UNCHANGED << pageVars, lenderVars, chatVars >>

\* utterance.onerror, line 116: the synthesis gave the utterance up
utteranceOnError ==
    /\ utterance # NoUtterance
    /\ utterance' = NoUtterance
    /\ isSpeaking' = IF AssistantMounted(utterance.owner) THEN FALSE ELSE isSpeaking
    /\ UNCHANGED << voiceMounted, voiceInstance, isListening, transcript, response,
                    isProcessing, recognition, cancelled, voiceRequests >>
    /\ UNCHANGED << pageVars, lenderVars, chatVars >>

\* onend / onerror of an utterance that was cancelled, lines 115-116
utteranceOnCancelled ==
    /\ cancelled > 0
    /\ cancelled' = cancelled - 1
    /\ isSpeaking' = FALSE
    /\ UNCHANGED << voiceMounted, voiceInstance, isListening, transcript, response,
                    isProcessing, recognition, utterance, voiceRequests >>
    /\ UNCHANGED << pageVars, lenderVars, chatVars >>

\* the Stop Speaking button, lines 255-264, and stopSpeaking, lines 136-141
stopSpeaking ==
    /\ voiceMounted
    /\ isSpeaking
    /\ CancelledNow => cancelled < MaxCancelled
    /\ utterance' = NoUtterance
    /\ cancelled' = IF CancelledNow THEN cancelled + 1 ELSE cancelled
    /\ isSpeaking' = FALSE
    /\ UNCHANGED << voiceMounted, voiceInstance, isListening, transcript, response,
                    isProcessing, recognition, voiceRequests >>
    /\ UNCHANGED << pageVars, lenderVars, chatVars >>

\* the close button, line 162: handleVoiceAssistantClose (BorrowerDashboard
\* 69-71) unmounts the assistant and the effect's cleanup runs, lines 76-83:
\* recognition.stop() and speechSynthesis.cancel().  The refs keep their
\* objects, the calls that are
\* waiting keep waiting; what the handlers of cancelled utterances would set is
\* dropped from now on.
handleVoiceAssistantClose ==
    /\ voiceMounted
    /\ voiceMounted' = FALSE
    /\ recognition' = [ recognition EXCEPT ![voiceInstance] = recognitionStop(@) ]
    /\ utterance' = NoUtterance
    /\ cancelled' = 0
    /\ UNCHANGED << voiceInstance, isListening, isSpeaking, transcript, response,
                    isProcessing, voiceRequests >>
    /\ UNCHANGED << pageVars, lenderVars, chatVars >>

\* Layout's handleLogout and handleProfileClick, BorrowerDashboard.tsx 433-443,
\* while the assistant is shown: the router leaves the dashboard, which renders
\* the assistant inside Layout (lines 112-377); the assistant is unmounted and
\* its cleanup runs, lines 76-83
voiceLayoutNavigate ==
    /\ voiceMounted
    /\ voiceMounted' = FALSE
    /\ recognition' = [ recognition EXCEPT ![voiceInstance] = recognitionStop(@) ]
    /\ utterance' = NoUtterance
    /\ cancelled' = 0
    /\ UNCHANGED << voiceInstance, isListening, isSpeaking, transcript, response,
                    isProcessing, voiceRequests >>
    /\ UNCHANGED << pageVars, lenderVars, chatVars >>

\* the assistants that have been mounted
VoiceInstances == 1..MaxVoiceOpens

\* the calls that can be waiting at once: one of each assistant
VoiceRequestSlots == 1..MaxVoiceOpens

NextVoice ==
    \/ handleVoiceAssistantOpen
    \/ startListening
    \/ \E instance \in VoiceInstances : recognitionOnStart(instance)
    \/ \E instance \in VoiceInstances, finalTranscript \in FinalTranscripts :
          recognitionOnResult(instance, finalTranscript)
    \/ \E instance \in VoiceInstances : recognitionOnError(instance)
    \/ \E instance \in VoiceInstances : recognitionOnEnd(instance)
    \/ stopListening
    \/ \E k \in VoiceRequestSlots, text \in BotResponses \cup { VoiceErrorMsg } :
          handleVoiceInputSettle(k, text)
    \/ utteranceOnStart
    \/ utteranceOnEnd
    \/ utteranceOnError
    \/ utteranceOnCancelled
    \/ stopSpeaking
    \/ handleVoiceAssistantClose
    \/ voiceLayoutNavigate

SpecVoice == InitVoice /\ [][NextVoice]_vars

\* C30: an assistant that has been closed starts no new speech and does not
\* listen: whatever speechSynthesis holds was handed to it by the assistant
\* that is mounted now, so nothing is spoken while none is mounted and a call
\* that was waiting when its assistant was closed speaks neither into the
\* closed dashboard nor into an assistant opened later; and no recognition
\* session of a closed assistant is starting or active.
C30_SilentAfterClose ==
    /\ utterance # NoUtterance => AssistantMounted(utterance.owner)
    /\ \A instance \in DOMAIN recognition :
          ~AssistantMounted(instance)
          => recognition[instance] \notin { "starting", "active" }


=============================================================================
